---- MODULE Spec2Model ----
(***************************************************************************)
(* Model of the drawtogether server: the connection handler, the inbound   *)
(* command switch (handleData), broadcast, saveCanvas and the Socket       *)
(* wrapper's write paths.  One action is one run-to-completion callback of *)
(* the single JavaScript thread.                                           *)
(***************************************************************************)
EXTENDS Integers, Sequences, FiniteSets, TLC

\* ---- bounds ----
NumSessions == 3
MaxCmds == 3
MaxCmdsLive == 4
MaxCmdsFair == 2
MaxOps == 4

Sessions == 1..NumSessions

\* Well-formed payloads of line / dot / erase, and the absent payload.
NoData == "undefined"
Payloads == {"p1", "p2"}

\* Stands for "no socket": the value of an omitted `exclude` argument.
NoSocket == 0

Mutations == {"line", "dot", "erase", "clear"}
\* "ping" stands for every command string the switch has no case for.
Commands == Mutations \cup {"join", "ping"}

\* canvas.size.toArray() of the 1920 x 1080 canvas, as the join reply carries it.
JoinData == "{size:[1920,1080]}"

VARIABLES
    sockets,     \* the `sockets` array: sequence of sessions, in push order
    canvas,      \* the raster, as the draw calls applied since the last fill("white")
    conn,        \* per session: state of the underlying WebSocket
    out,         \* per session: the frames sent on its WebSocket, in order
    tasks,       \* pending asynchronous callbacks (createBlob, FileReader.onload)
    persisted,   \* the fs.writeFile calls made, in order
    arrivals,    \* history: the inbound envelopes handled so far, in arrival order,
                 \* each with the raster (pre) and the open registered sessions
                 \* (live) at the moment handleData was entered
    sendThrows   \* whether ws.send on a closed WebSocket throws (fixed by the ws build)

\* An EventClass instance (GlobalEvents) and the history of the calls made on it.
VARIABLES
    events,      \* the `events` map: per name, whether the map has it and its array
    regs,        \* history: the on/once registrations; the index is the entry's identity
    emitted,     \* history: per name, the number of emitEvent calls so far
    calls,       \* history: the handler invocations, in order
    lastOp,      \* history: the last EventClass method called and what it did
    opCount      \* history: the number of EventClass method calls so far

evvars == <<events, regs, emitted, calls, lastOp, opCount>>

srvvars == <<sockets, canvas, conn, out, tasks, persisted, arrivals, sendThrows>>

vars == <<sockets, canvas, conn, out, tasks, persisted, arrivals, sendThrows, evvars>>

\* Membership in the `sockets` array.
Registered(s) == \E i \in DOMAIN sockets : sockets[i] = s

\* ---- frames ----
\* `id` is the index in `arrivals` of the command that caused the frame (0: none).
TextFrame(command, data, id) ==
    [kind |-> "text", command |-> command, data |-> data, bytes |-> <<>>, id |-> id]

BinaryFrame(arrayBuffer, id) ==
    [kind |-> "binary", command |-> "", data |-> NoData, bytes |-> arrayBuffer, id |-> id]

\* ---- canvas (Canvas class: drawLine, fillCircleInSquare, fill, createBlob) ----
drawLine(cv, data, color) ==
    Append(cv, [op |-> "drawLine", data |-> data, color |-> color])

fillCircleInSquare(cv, data) ==
    Append(cv, [op |-> "fillCircleInSquare", data |-> data, color |-> "data.color"])

fill(cv) == <<>>

\* The encoded image of a raster.
encode(cv) == <<"png", cv>>

\* canvas.createBlob(cb): captures the raster at the call, delivers it to cb later.
createBlob(kind, socket, id) ==
    [kind |-> kind, stage |-> "blob", sock |-> socket, blob |-> encode(canvas), id |-> id]

\* ---- Socket ----
\* Socket.write / Socket.writeArrayBuffer: this.socket.send(frame).  The result is
\* the new `out` and whether send threw.
write(o, socket, frame) ==
    IF conn[socket] = "open"
    THEN [out |-> [o EXCEPT ![socket] = Append(@, frame)], threw |-> FALSE]
    ELSE [out |-> o, threw |-> sendThrows]

\* sockets.forEach(socket => { if (socket !== exclude) socket.write(command, data) })
\* over the list `list`; a throwing write ends the forEach.
RECURSIVE forEachWrite(_, _, _, _)
forEachWrite(list, frame, exclude, o) ==
    IF list = <<>> THEN [out |-> o, threw |-> FALSE]
    ELSE IF Head(list) = exclude THEN forEachWrite(Tail(list), frame, exclude, o)
    ELSE LET w == write(o, Head(list), frame) IN
         IF w.threw THEN w
         ELSE forEachWrite(Tail(list), frame, exclude, w.out)

\* Variant of broadcast: iterates over every accepted connection, joined or not.
broadcastToConnections(frame, exclude) ==
    forEachWrite(SelectSeq([i \in 1..NumSessions |-> i], LAMBDA t : conn[t] # "none"),
                 frame, exclude, out)

broadcast(frame, exclude) == forEachWrite(sockets, frame, exclude, out)

\* ---- handleData, one definition per case of the switch ----
\* Variant of the join case: the reply goes through broadcast instead of socket.write.
handleJoinBroadcast(socket, id) ==
    /\ sockets' = Append(sockets, socket)
    /\ out' = forEachWrite(Append(sockets, socket), TextFrame("join", JoinData, id),
                           NoSocket, out).out
    /\ tasks' = tasks \cup {createBlob("join", socket, id)}
    /\ UNCHANGED <<canvas, persisted>>

\* Variant of the join case: the reply is written but no snapshot is requested.
handleJoinNoSnapshot(socket, id) ==
    /\ sockets' = Append(sockets, socket)
    /\ out' = write(out, socket, TextFrame("join", JoinData, id)).out
    /\ UNCHANGED <<canvas, tasks, persisted>>

handleJoin(socket, id) ==
    LET w == write(out, socket, TextFrame("join", JoinData, id)) IN
    /\ sockets' = Append(sockets, socket)
    /\ out' = w.out
    /\ tasks' = IF w.threw THEN tasks ELSE tasks \cup {createBlob("join", socket, id)}
    /\ UNCHANGED <<canvas, persisted>>

handleLine(data, socket, id) ==
    /\ canvas' = drawLine(canvas, data, "data.color")
    /\ out' = broadcast(TextFrame("line", data, id), NoSocket).out
    /\ UNCHANGED <<sockets, tasks, persisted>>

handleDot(data, socket, id) ==
    /\ canvas' = fillCircleInSquare(canvas, data)
    /\ out' = broadcast(TextFrame("dot", data, id), NoSocket).out
    /\ UNCHANGED <<sockets, tasks, persisted>>

\* Variant of the erase case: relayed but not drawn on the server's canvas.
handleEraseNoDraw(data, socket, id) ==
    /\ out' = broadcast(TextFrame("erase", data, id), NoSocket).out
    /\ UNCHANGED <<canvas, sockets, tasks, persisted>>

handleErase(data, socket, id) ==
    /\ canvas' = drawLine(canvas, data, "white")
    /\ out' = broadcast(TextFrame("erase", data, id), NoSocket).out
    /\ UNCHANGED <<sockets, tasks, persisted>>

\* Variant of the clear case: canvas.fill('white') before saveCanvas().
handleClearFillFirst(data, socket, id) ==
    /\ canvas' = fill(canvas)
    /\ tasks' = tasks \cup {[createBlob("clear", socket, id) EXCEPT !.blob = encode(fill(canvas))]}
    /\ out' = broadcast(TextFrame("clear", data, id), NoSocket).out
    /\ UNCHANGED <<sockets, persisted>>

\* saveCanvas() without a buffer, then canvas.fill('white'), then broadcast.
handleClear(data, socket, id) ==
    /\ tasks' = tasks \cup {createBlob("clear", socket, id)}
    /\ canvas' = fill(canvas)
    /\ out' = broadcast(TextFrame("clear", data, id), NoSocket).out
    /\ UNCHANGED <<sockets, persisted>>

\* Variant: a default case that relays the envelope.
handleOtherRelay(data, socket, id) ==
    /\ out' = broadcast(TextFrame("ping", data, id), NoSocket).out
    /\ UNCHANGED <<sockets, canvas, tasks, persisted>>

\* A command with no case: the switch falls through.
handleOther(data, socket, id) ==
    UNCHANGED <<sockets, canvas, out, tasks, persisted>>

handleData(command, data, socket, id) ==
    CASE command = "join"  -> handleJoin(socket, id)
      [] command = "line"  -> handleLine(data, socket, id)
      [] command = "dot"   -> handleDot(data, socket, id)
      [] command = "erase" -> handleErase(data, socket, id)
      [] command = "clear" -> handleClear(data, socket, id)
      [] OTHER             -> handleOther(data, socket, id)

\* The payloads an inbound envelope of `command` may carry.
PayloadsOf(command) ==
    IF command \in {"line", "dot", "erase"} THEN Payloads
    ELSE IF command = "join" THEN {NoData}
    ELSE {NoData, "p1"}

\* ---- actions ----
\* wss.on('connection'): a Socket is made, handleData subscribed, 'hi' written.
\* Sessions are numbered in the order their connections are accepted.
Connection(s) ==
    /\ conn[s] = "none"
    /\ \A t \in Sessions : t < s => conn[t] # "none"
    /\ conn' = [conn EXCEPT ![s] = "open"]
    /\ out' = [out EXCEPT ![s] = Append(@, TextFrame("hi", NoData, 0))]
    /\ UNCHANGED <<sockets, canvas, tasks, persisted, arrivals, sendThrows, evvars>>

\* socket.on("message"): JSON.parse, emitEvent("data", command, data, this),
\* which runs the one subscribed handler, handleData.
Receive(s, command, data, bound) ==
    /\ conn[s] = "open"
    /\ Len(arrivals) < bound
    /\ arrivals' = Append(arrivals,
           [command |-> command, data |-> data, from |-> s, pre |-> canvas,
            live |-> {t \in Sessions : Registered(t) /\ conn[t] = "open"}])
    /\ handleData(command, data, s, Len(arrivals) + 1)
    /\ UNCHANGED <<conn, sendThrows, evvars>>

Message(s, command, data) == Receive(s, command, data, MaxCmds)

\* The same handler, in the runs where no peer disconnects.
MessageLive(s, command, data) == Receive(s, command, data, MaxCmdsLive)

\* The same handler, in the runs whose callbacks are scheduled fairly.
MessageFair(s, command, data) == Receive(s, command, data, MaxCmdsFair)

PayloadsLive(command) ==
    IF command \in {"line", "dot", "erase"} THEN {"p1"} ELSE {NoData}

\* The peer closes its connection.  The server has no 'close' handler.
Close(s) ==
    /\ conn[s] = "open"
    /\ conn' = [conn EXCEPT ![s] = "closed"]
    /\ UNCHANGED <<sockets, canvas, out, tasks, persisted, arrivals, sendThrows, evvars>>

\* The createBlob callback: new FileReader(), reader.readAsArrayBuffer(blob).
BlobCallback(t) ==
    /\ t \in tasks /\ t.stage = "blob"
    /\ tasks' = (tasks \ {t}) \cup {[t EXCEPT !.stage = "read"]}
    /\ UNCHANGED <<sockets, canvas, conn, out, persisted, arrivals, sendThrows, evvars>>

\* saveCanvas(buffer): fs.writeFile('boards/<now>.png', buffer).
saveCanvas(buffer, id) == Append(persisted, [bytes |-> buffer, id |-> id])

\* Variant of the join onload: the raster is encoded when the callback runs.
JoinOnloadRecapture(t) ==
    /\ t \in tasks /\ t.stage = "read" /\ t.kind = "join"
    /\ LET w == write(out, t.sock, BinaryFrame(encode(canvas), t.id)) IN
       /\ out' = w.out
       /\ persisted' = IF w.threw THEN persisted ELSE saveCanvas(encode(canvas), t.id)
    /\ tasks' = tasks \ {t}
    /\ UNCHANGED <<sockets, canvas, conn, arrivals, sendThrows, evvars>>

\* reader.onload of the join case: writeArrayBuffer, then saveCanvas(result).
JoinOnload(t) ==
    /\ t \in tasks /\ t.stage = "read" /\ t.kind = "join"
    /\ LET w == write(out, t.sock, BinaryFrame(t.blob, t.id)) IN
       /\ out' = w.out
       /\ persisted' = IF w.threw THEN persisted ELSE saveCanvas(t.blob, t.id)
    /\ tasks' = tasks \ {t}
    /\ UNCHANGED <<sockets, canvas, conn, arrivals, sendThrows, evvars>>

\* reader.onload of saveCanvas(): saveCanvas(reader.result).
SaveOnload(t) ==
    /\ t \in tasks /\ t.stage = "read" /\ t.kind = "clear"
    /\ persisted' = saveCanvas(t.blob, t.id)
    /\ tasks' = tasks \ {t}
    /\ UNCHANGED <<sockets, canvas, conn, out, arrivals, sendThrows, evvars>>


\* ---- EventClass ----
EventNames == {"a", "b"}

\* The receiving functions; "boom" throws when called.
Fns == {"f", "g", "boom"}
Throws(fn) == fn = "boom"

NoEvent == [has |-> FALSE, list |-> <<>>]

\* array_remove(array, element): removes the element, by identity, in place.
RECURSIVE array_remove(_, _)
array_remove(array, element) ==
    IF array = <<>> THEN <<>>
    ELSE IF Head(array).uid = element.uid THEN Tail(array)
    ELSE <<Head(array)>> \o array_remove(Tail(array), element)

\* if (!this.events.has(name)) this.events.set(name, [])
\* Variant of createEvent: the array is set anew also when the map has the name.
createEventReset(ev, name) == [ev EXCEPT ![name] = [has |-> TRUE, list |-> <<>>]]

createEvent(ev, name) ==
    IF ~ev[name].has THEN [ev EXCEPT ![name] = [has |-> TRUE, list |-> <<>>]] ELSE ev

\* this.events.get(event).push({ fn, id }), after the has-check of on / once.
push(ev, name, entry) ==
    LET e == createEvent(ev, name) IN [e EXCEPT ![name].list = Append(@, entry)]

\* Array.prototype.forEach(o => o.fn(...args)) over the live array: index k runs
\* to the length the array had at the start, an index the array no longer has is
\* passed over; a one-shot wrapper calls fn and then array_remove(list, wrapper);
\* a throwing fn ends the loop.
RECURSIVE forEachCall(_, _, _, _)
forEachCall(list, k, len, invoked) ==
    IF k > len THEN [list |-> list, invoked |-> invoked, threw |-> FALSE]
    ELSE IF k > Len(list) THEN forEachCall(list, k + 1, len, invoked)
    ELSE LET o == list[k] IN
         IF Throws(o.fn)
         THEN [list |-> list, invoked |-> Append(invoked, o.uid), threw |-> TRUE]
         ELSE forEachCall(IF o.once THEN array_remove(list, o) ELSE list,
                          k + 1, len, Append(invoked, o.uid))

\* Variant of emitEvent: an undeclared name is not added to the map.
emitEventNoDeclare(ev, name) ==
    LET r == forEachCall(ev[name].list, 1, Len(ev[name].list), <<>>) IN
    [events |-> [ev EXCEPT ![name].list = r.list], invoked |-> r.invoked, threw |-> r.threw]

emitEvent(ev, name) ==
    LET e == createEvent(ev, name)
        r == forEachCall(e[name].list, 1, Len(e[name].list), <<>>)
    IN  [events |-> [e EXCEPT ![name].list = r.list], invoked |-> r.invoked, threw |-> r.threw]

\* debugEvent: the has-check, then console.log of the ids.
debugEvent(ev, name) == createEvent(ev, name)

Op(op, name, invoked, threw) ==
    [op |-> op, event |-> name, before |-> events[name], invoked |-> invoked, threw |-> threw]

CreateEvent(name) ==
    /\ opCount < MaxOps
    /\ events' = createEvent(events, name)
    /\ lastOp' = Op("createEvent", name, <<>>, FALSE)
    /\ opCount' = opCount + 1
    /\ UNCHANGED <<regs, emitted, calls, srvvars>>

Register(name, fn, once) ==
    /\ opCount < MaxOps
    /\ events' = push(events, name, [fn |-> fn, once |-> once, uid |-> Len(regs) + 1])
    /\ regs' = Append(regs, [event |-> name, fn |-> fn, once |-> once, at |-> emitted[name]])
    /\ lastOp' = Op(IF once THEN "once" ELSE "on", name, <<>>, FALSE)
    /\ opCount' = opCount + 1
    /\ UNCHANGED <<emitted, calls, srvvars>>

On(name, fn) == Register(name, fn, FALSE)

Once(name, fn) == Register(name, fn, TRUE)

EmitEvent(name) ==
    /\ opCount < MaxOps
    /\ LET r == emitEvent(events, name) IN
       /\ events' = r.events
       /\ calls' = calls \o [i \in DOMAIN r.invoked |->
                                [uid |-> r.invoked[i], n |-> emitted[name] + 1]]
       /\ lastOp' = Op("emitEvent", name, r.invoked, r.threw)
    /\ emitted' = [emitted EXCEPT ![name] = @ + 1]
    /\ opCount' = opCount + 1
    /\ UNCHANGED <<regs, srvvars>>

DebugEvent(name) ==
    /\ opCount < MaxOps
    /\ events' = debugEvent(events, name)
    /\ lastOp' = Op("debugEvent", name, <<>>, FALSE)
    /\ opCount' = opCount + 1
    /\ UNCHANGED <<regs, emitted, calls, srvvars>>

\* new EventClass(): an empty map.
InitEvents ==
    /\ events = [n \in EventNames |-> NoEvent]
    /\ regs = <<>>
    /\ emitted = [n \in EventNames |-> 0]
    /\ calls = <<>>
    /\ lastOp = [op |-> "new", event |-> "a", before |-> NoEvent, invoked |-> <<>>, threw |-> FALSE]
    /\ opCount = 0

InitServer ==
    /\ sockets = <<>>
    /\ canvas = <<>>
    /\ conn = [s \in Sessions |-> "none"]
    /\ out = [s \in Sessions |-> <<>>]
    /\ tasks = {}
    /\ persisted = <<>>
    /\ arrivals = <<>>
    /\ sendThrows \in BOOLEAN

Init == InitServer /\ InitEvents

Next ==
    \/ \E s \in Sessions : Connection(s)
    \/ \E s \in Sessions, c \in Commands : \E d \in PayloadsOf(c) : Message(s, c, d)
    \/ \E s \in Sessions : Close(s)
    \/ \E t \in tasks : BlobCallback(t)
    \/ \E t \in tasks : JoinOnload(t)
    \/ \E t \in tasks : SaveOnload(t)

Spec == Init /\ [][Next]_vars

\* The runs in which every accepted connection stays open: no send ever fails.
InitLive == Init /\ sendThrows = FALSE

NextLive ==
    \/ \E s \in Sessions : Connection(s)
    \/ \E s \in Sessions, c \in Commands : \E d \in PayloadsLive(c) : MessageLive(s, c, d)
    \/ \E t \in tasks : BlobCallback(t)
    \/ \E t \in tasks : JoinOnload(t)
    \/ \E t \in tasks : SaveOnload(t)

SpecLive == InitLive /\ [][NextLive]_vars

\* The event loop runs every queued callback: a createBlob callback or a
\* FileReader onload that is pending is eventually run.
NextFair ==
    \/ \E s \in Sessions : Connection(s)
    \/ \E s \in Sessions, c \in Commands : \E d \in PayloadsLive(c) : MessageFair(s, c, d)
    \/ \E s \in Sessions : Close(s)
    \/ \E t \in tasks : BlobCallback(t)
    \/ \E t \in tasks : JoinOnload(t)
    \/ \E t \in tasks : SaveOnload(t)

FairSpec ==
    /\ Init
    /\ [][NextFair]_vars
    /\ WF_vars(\E t \in tasks : BlobCallback(t))
    /\ WF_vars(\E t \in tasks : JoinOnload(t))
    /\ WF_vars(\E t \in tasks : SaveOnload(t))

\* The calls made on one EventClass instance, the server idle.
InitEv == InitServer /\ InitEvents /\ sendThrows = FALSE

NextEv ==
    \/ \E n \in EventNames : CreateEvent(n)
    \/ \E n \in EventNames, fn \in Fns : On(n, fn)
    \/ \E n \in EventNames, fn \in Fns : Once(n, fn)
    \/ \E n \in EventNames : EmitEvent(n)
    \/ \E n \in EventNames : DebugEvent(n)

SpecEv == InitEv /\ [][NextEv]_vars

TypeOK ==
    /\ \A i \in 1..Len(sockets) : sockets[i] \in Sessions
    /\ Len(arrivals) <= MaxCmdsLive

\* ---- helpers of the properties ----
JoinsOf(s) == {k \in DOMAIN arrivals : arrivals[k].command = "join" /\ arrivals[k].from = s}

\* s had been pushed to `sockets` when command k was handled.
RegisteredAt(s, k) == \E j \in JoinsOf(s) : j < k

FirstJoin(s) == CHOOSE j \in JoinsOf(s) : \A i \in JoinsOf(s) : j <= i

Max(a, b) == IF a >= b THEN a ELSE b

FramesOf(s, k) == {i \in DOMAIN out[s] : out[s][i].id = k}

IsMutationFrame(f) == f.kind = "text" /\ f.command \in Mutations

\* What one command does to the raster.
Effect(cv, a) ==
    CASE a.command = "line"  -> Append(cv, [op |-> "drawLine", data |-> a.data, color |-> "data.color"])
      [] a.command = "dot"   -> Append(cv, [op |-> "fillCircleInSquare", data |-> a.data, color |-> "data.color"])
      [] a.command = "erase" -> Append(cv, [op |-> "drawLine", data |-> a.data, color |-> "white"])
      [] a.command = "clear" -> <<>>
      [] OTHER               -> cv

\* ---- C1 ----
\* C1: every line/dot/erase/clear handled from a registered session S is written,
\* payload unchanged, to every other registered (and connected) session, and is
\* never written to S itself.
C1_BroadcastExceptSender ==
    \A k \in DOMAIN arrivals :
        LET a == arrivals[k] IN
        (a.command \in Mutations /\ RegisteredAt(a.from, k)) =>
            /\ \A s \in a.live \ {a.from} :
                   \E i \in DOMAIN out[s] : out[s][i] = TextFrame(a.command, a.data, k)
            /\ FramesOf(a.from, k) = {}

\* ---- C2 ----
\* The mutation frames written to s for commands after arrival k0 that neither A
\* nor B originated.
SeenBy(s, k0, A, B) ==
    SelectSeq(out[s], LAMBDA f : /\ IsMutationFrame(f)
                                 /\ f.id > k0
                                 /\ arrivals[f.id].from \notin {A, B})

\* C2: two registered sessions see the same ordered sequence of mutation frames
\* for the commands that arrived after both were registered, once the commands
\* either of them originated are removed.
C2_SameOrderedMutations ==
    \A A \in Sessions, B \in Sessions :
        (JoinsOf(A) # {} /\ JoinsOf(B) # {}) =>
            LET k0 == Max(FirstJoin(A), FirstJoin(B)) IN
            SeenBy(A, k0, A, B) = SeenBy(B, k0, A, B)

\* ---- C3 ----
\* C3: for every join handled from S, exactly one join reply is written to S, it
\* precedes the binary frame of that join, at most one binary frame is written
\* for that join, and join and binary frames go to no session but the joiner.
C3_JoinReplyThenOneSnapshot ==
    \A s \in Sessions :
        /\ \A k \in JoinsOf(s) :
               Cardinality({i \in FramesOf(s, k) :
                               out[s][i] = TextFrame("join", JoinData, k)}) = 1
        /\ \A i \in DOMAIN out[s] :
               LET f == out[s][i] IN
               /\ (f.command = "join" \/ f.kind = "binary") => f.id \in JoinsOf(s)
               /\ f.kind = "binary" =>
                      /\ \E j \in 1..(i - 1) : out[s][j] = TextFrame("join", JoinData, f.id)
                      /\ \A j \in DOMAIN out[s] :
                             (out[s][j].kind = "binary" /\ out[s][j].id = f.id) => j = i

\* Two sessions are registered, one joined twice, and a snapshot was delivered.
C3_Witness ==
    \E s \in Sessions, t \in Sessions :
        /\ s # t /\ Registered(t)
        /\ Cardinality(JoinsOf(s)) = 2
        /\ \E i \in DOMAIN out[s] : out[s][i].kind = "binary"

\* ---- C4 ----
\* C4: in the frames written to a session, the binary snapshot of a join comes
\* right after the reply of that join, with no frame between them.
C4_SnapshotRightAfterReply ==
    \A s \in Sessions : \A i \in DOMAIN out[s] :
        out[s][i].kind = "binary" =>
            /\ i > 1
            /\ out[s][i - 1] = TextFrame("join", JoinData, out[s][i].id)

\* ---- C5 ----
\* C5: the snapshot bytes sent to a joiner encode the canvas as it was when its
\* join was handled, whatever was drawn before the snapshot was delivered.
C5_SnapshotIsCanvasAtJoin ==
    \A s \in Sessions : \A i \in DOMAIN out[s] :
        out[s][i].kind = "binary" =>
            out[s][i].bytes = encode(arrivals[out[s][i].id].pre)

\* A snapshot was delivered after a later mutation had been relayed to the joiner,
\* and the canvas at delivery differs from the one the snapshot shows.
C5_Witness ==
    \E s \in Sessions : \E i \in DOMAIN out[s], j \in DOMAIN out[s] :
        /\ i < j
        /\ out[s][j].kind = "binary"
        /\ IsMutationFrame(out[s][i])
        /\ out[s][i].id > out[s][j].id
        /\ Effect(arrivals[out[s][i].id].pre, arrivals[out[s][i].id])
               # arrivals[out[s][j].id].pre
        /\ arrivals[out[s][j].id].pre # <<>>

\* ---- C6 ----
\* C6: every handled clear has exactly one persist call, made or still pending in
\* its callbacks, and what is persisted is the canvas as it was before the fill.
C6_ClearPersistsOncePreReset ==
    \A k \in DOMAIN arrivals :
        arrivals[k].command = "clear" =>
            LET done == {i \in DOMAIN persisted : persisted[i].id = k}
                pend == {t \in tasks : t.id = k}
            IN  /\ Cardinality(done) + Cardinality(pend) = 1
                /\ \A i \in done : persisted[i].bytes = encode(arrivals[k].pre)
                /\ \A t \in pend : t.blob = encode(arrivals[k].pre)

\* The snapshot of a clear of a drawn-on canvas has been persisted.
C6_Witness ==
    \E i \in DOMAIN persisted :
        /\ arrivals[persisted[i].id].command = "clear"
        /\ arrivals[persisted[i].id].pre # <<>>
        /\ persisted[i].bytes # encode(<<>>)

\* ---- C7 ----
\* The canvas is the arrival sequence applied in order, none skipped.
AppliedInArrivalOrder ==
    /\ \A k \in DOMAIN arrivals :
           arrivals[k].pre = IF k = 1 THEN <<>> ELSE Effect(arrivals[k - 1].pre, arrivals[k - 1])
    /\ canvas = IF arrivals = <<>> THEN <<>>
                ELSE Effect(arrivals[Len(arrivals)].pre, arrivals[Len(arrivals)])

\* Every session's relayed frames are in arrival order, each is its command unmerged.
RelayedInArrivalOrder ==
    \A s \in Sessions : \A i \in DOMAIN out[s] :
        IsMutationFrame(out[s][i]) =>
            /\ out[s][i].id \in DOMAIN arrivals
            /\ out[s][i].command = arrivals[out[s][i].id].command
            /\ out[s][i].data = arrivals[out[s][i].id].data
            /\ \A j \in DOMAIN out[s] :
                   (j < i /\ IsMutationFrame(out[s][j])) => out[s][j].id <= out[s][i].id

\* The frames a step appends to the frames of s.
Appended(s) == {i \in DOMAIN out'[s] : i > Len(out[s])}

\* A step that draws or relays handles exactly one command, and relays only it.
OneCommandAtATime ==
    (canvas' # canvas \/ \E s \in Sessions : \E i \in Appended(s) : IsMutationFrame(out'[s][i])) =>
        /\ Len(arrivals') = Len(arrivals) + 1
        /\ \A s \in Sessions : \A i \in Appended(s) : out'[s][i].id = Len(arrivals')

\* C7: mutation commands are applied to the canvas and relayed in global arrival
\* order, one command at a time: the canvas is the arrival sequence applied in
\* order, every session's relayed frames are in arrival order, and the drawing
\* and the relay of a command happen in the one step that handles it.
C7_GlobalArrivalOrder ==
    /\ [](AppliedInArrivalOrder /\ RelayedInArrivalOrder)
    /\ [][OneCommandAtATime]_vars

\* Three commands of two sessions were applied and relayed to a third party.
C7_Witness ==
    /\ Len(arrivals) = 3
    /\ Len(canvas) = 2
    /\ arrivals[2].from # arrivals[3].from
    /\ arrivals[3].command = "erase"
    /\ \E s \in Sessions : Cardinality({i \in DOMAIN out[s] : IsMutationFrame(out[s][i])}) = 2

\* ---- C8 ----
\* C8: a session whose connection is closed is no longer in the registry.
C8_ClosedSessionsLeaveRegistry ==
    \A s \in Sessions : conn[s] = "closed" => ~Registered(s)

\* ---- C9 ----
\* C9: a broadcast delivers the command to every open registered session, also
\* when the write to another destination fails.
C9_FailureDoesNotAbortDelivery ==
    \A k \in DOMAIN arrivals :
        arrivals[k].command \in Mutations =>
            \A s \in arrivals[k].live : FramesOf(s, k) # {}

\* ---- C10 ----
\* C10: handling an envelope whose command has no case changes neither the
\* canvas, the session list, any session's frames, the persisted files nor the
\* pending callbacks.
C10_UnknownCommandIgnored ==
    [][ ( /\ Len(arrivals') = Len(arrivals) + 1
          /\ arrivals'[Len(arrivals')].command \notin (Mutations \cup {"join"}) )
        => UNCHANGED <<canvas, sockets, out, persisted, tasks, conn>> ]_vars

\* An unknown command was handled while two open sessions were registered.
C10_Witness ==
    \E k \in DOMAIN arrivals :
        /\ arrivals[k].command = "ping"
        /\ Cardinality(arrivals[k].live) >= 2

\* ---- C11 ----
HasSnapshot(s, k) == \E i \in DOMAIN out[s] : out[s][i].kind = "binary" /\ out[s][i].id = k

JoinHandled(s, k) == k \in JoinsOf(s)

\* C11 as stated: every join is eventually followed by the binary frame of that
\* join on the joiner's connection.
C11_JoinLeadsToSnapshot ==
    \A s \in Sessions : \A k \in 1..MaxCmdsFair :
        JoinHandled(s, k) ~> HasSnapshot(s, k)

\* C11, amended: every join is eventually followed by the binary frame of that
\* join on the joiner's connection, or by the joiner's connection being closed
\* before the snapshot callback ran.
C11_JoinLeadsToSnapshotOrClosed ==
    \A s \in Sessions : \A k \in 1..MaxCmdsFair :
        JoinHandled(s, k) ~> (HasSnapshot(s, k) \/ conn[s] = "closed")

\* One joiner got its snapshot; another closed and its callbacks ended without one.
C11_Witness ==
    \E s \in Sessions, t \in Sessions :
        /\ \E k \in JoinsOf(s) : HasSnapshot(s, k)
        /\ conn[t] = "closed" /\ JoinsOf(t) # {}
        /\ \A k \in JoinsOf(t) : ~HasSnapshot(t, k)
        /\ tasks = {}

\* ---- helpers of the EventClass properties ----
Uids(list) == [i \in DOMAIN list |-> list[i].uid]

IsEmit == lastOp.op = "emitEvent"

\* The calls of entry u, as the emission numbers they happened in.
CallsOf(u) == SelectSeq(calls, LAMBDA c : c.uid = u)

\* A step that is the call of method op.
Called(op) == opCount' = opCount + 1 /\ lastOp'.op = op

\* The registry after a call differs from the one before it at most by
\* `event` having become declared with no handler.
Declares(event) == events' = [events EXCEPT ![event] = [has |-> TRUE, list |-> <<>>]]

\* ---- C12 ----
\* C12: an emission in which nothing throws invokes every entry the event's
\* array holds when it starts, each once, in registration order.
C12_EmitInvokesAllInOrder ==
    (IsEmit /\ ~lastOp.threw) => lastOp.invoked = Uids(lastOp.before.list)

\* ---- C13 ----
\* No receiving function registered for `event` throws.
NoThrower(event) == \A u \in DOMAIN regs : regs[u].event = event => ~Throws(regs[u].fn)

\* C13: a one-shot entry is not called before the first emission after its
\* registration, is called in that emission, is then gone from the array, and is
\* never called again.
C13_OnceRunsOnFirstEmissionOnly ==
    \A u \in DOMAIN regs :
        (regs[u].once /\ NoThrower(regs[u].event)) =>
            IF emitted[regs[u].event] = regs[u].at
            THEN CallsOf(u) = <<>>
            ELSE /\ CallsOf(u) = <<[uid |-> u, n |-> regs[u].at + 1]>>
                 /\ \A i \in DOMAIN events[regs[u].event].list :
                        events[regs[u].event].list[i].uid # u

\* ---- C14 ----
\* C14: emitEvent on a name the map does not have calls no handler, does not
\* throw, and leaves the name in the map with an empty array and the rest of the
\* registry as it was; emitEvent on a name with an empty array changes nothing.
C14_EmitUndeclaredDeclares ==
    [][ \A n \in EventNames :
          (Called("emitEvent") /\ lastOp'.event = n) =>
              /\ ~events[n].has =>
                     /\ Declares(n)
                     /\ lastOp'.invoked = <<>> /\ ~lastOp'.threw
                     /\ calls' = calls
              /\ events[n] = [has |-> TRUE, list |-> <<>>] =>
                     /\ events' = events
                     /\ lastOp'.invoked = <<>> /\ ~lastOp'.threw
      ]_vars

\* A never declared name was emitted twice while the other name has handlers.
C14_Witness ==
    \E n \in EventNames, m \in EventNames :
        /\ IsEmit /\ lastOp.event = n
        /\ emitted[n] = 2
        /\ lastOp.before = [has |-> TRUE, list |-> <<>>]
        /\ \A u \in DOMAIN regs : regs[u].event # n
        /\ Len(events[m].list) = 2

\* ---- C15 ----
\* The position in `list` of the entry with identity u (0: none).
PosOf(list, u) ==
    IF \E i \in DOMAIN list : list[i].uid = u
    THEN CHOOSE i \in DOMAIN list : list[i].uid = u
    ELSE 0

\* C15: when a handler throws during an emission, the entries registered before
\* it have all been called, in order, the entries after it have not, and every
\* regular entry is still in the array.
C15_ThrowAbortsTheRest ==
    (IsEmit /\ lastOp.threw) =>
        LET b == lastOp.before.list
            p == PosOf(b, lastOp.invoked[Len(lastOp.invoked)])
        IN  /\ p > 0
            /\ lastOp.invoked = Uids(SubSeq(b, 1, p))
            /\ \A i \in DOMAIN b :
                   ~b[i].once => PosOf(events[lastOp.event].list, b[i].uid) > 0

\* ---- C16 ----
\* C16: a call of debugEvent leaves the registry as it was, for a declared and
\* for an undeclared name.
C16_DebugEventNoSideEffect ==
    [][ Called("debugEvent") => events' = events ]_vars

\* ---- C17 ----
\* C17: createEvent on an undeclared name declares it with an empty array and
\* changes nothing else; on a declared name it leaves the registry unchanged.
C17_CreateEventIdempotent ==
    [][ \A n \in EventNames :
          (Called("createEvent") /\ lastOp'.event = n) =>
              IF events[n].has THEN events' = events ELSE Declares(n)
      ]_vars

\* createEvent was called on a name that has handlers, and on an undeclared one.
C17_Witness ==
    \E n \in EventNames, m \in EventNames :
        /\ lastOp.op = "createEvent" /\ lastOp.event = n
        /\ lastOp.before.has /\ Len(lastOp.before.list) = 2
        /\ events[n] = lastOp.before
        /\ events[m] = [has |-> TRUE, list |-> <<>>]
        /\ \A u \in DOMAIN regs : regs[u].event # m
        /\ emitted[m] = 0

\* ---- C18 ----
EntriesOf(s) == {i \in DOMAIN sockets : sockets[i] = s}

\* C18: broadcast(command, data, exclude) appends, for every connected session s,
\* one frame (command, data) per entry of s in the list when s is not `exclude`,
\* and none when it is; with `exclude` omitted no session is left out.
C18_BroadcastOnePerEntry ==
    \A exclude \in Sessions \cup {NoSocket} :
        LET f == TextFrame("line", "p1", 0)
            r == broadcast(f, exclude).out
        IN  \A s \in Sessions :
                conn[s] = "open" =>
                    /\ Len(r[s]) = Len(out[s])
                           + (IF s = exclude THEN 0 ELSE Cardinality(EntriesOf(s)))
                    /\ SubSeq(r[s], 1, Len(out[s])) = out[s]
                    /\ \A i \in (Len(out[s]) + 1)..Len(r[s]) : r[s][i] = f

\* ---- C19 ----
\* C19: no session is in the `sockets` list more than once.
C19_NoDuplicateSession ==
    \A i \in DOMAIN sockets, j \in DOMAIN sockets : sockets[i] = sockets[j] => i = j

\* ---- C20 ----
\* C20: the first frame on every accepted connection is `hi`, and a session that
\* has not sent join has been written no other frame.
C20_HiFirstAndOnlyBeforeJoin ==
    \A s \in Sessions :
        /\ conn[s] = "none" => out[s] = <<>>
        /\ conn[s] # "none" => (out[s] # <<>> /\ out[s][1] = TextFrame("hi", NoData, 0))
        /\ JoinsOf(s) = {} => Len(out[s]) <= 1

\* A session that never joined sent a drawing command, which was relayed to a
\* joined session; the unjoined one still has only `hi`.
C20_Witness ==
    \E s \in Sessions, t \in Sessions :
        /\ conn[s] = "open" /\ JoinsOf(s) = {}
        /\ out[s] = <<TextFrame("hi", NoData, 0)>>
        /\ \E k \in DOMAIN arrivals :
               /\ arrivals[k].from = s /\ arrivals[k].command \in Mutations
               /\ FramesOf(t, k) # {}
====
